---------------------------- MODULE Spec2Model ----------------------------
(***************************************************************************)
(* The to-do list service: the Data Access Layer of src/app/database.py    *)
(* (one SQLite table, tasks) and the HTTP handlers of src/app/app.py.      *)
(* Under Spec requests are handled one at a time and each handler is one    *)
(* action.  Under SpecConc and SpecFault a handler advances one SQL         *)
(* statement, one commit or one raised error at a time: SpecConc            *)
(* interleaves the handlers of two clients, SpecFault lets any unit of work *)
(* of one client fail with a storage-engine error.                          *)
(*                                                                         *)
(* JSON values are modelled for the types of the Task data model: a field  *)
(* of a request body is absent, null, or a string.  A string is the        *)
(* sequence of its pieces (<<" ", "a">> is " a"), so that str.strip() is   *)
(* computed and not assumed.                                               *)
(***************************************************************************)
EXTENDS Integers, Sequences, FiniteSets, TLC

VARIABLES
    tasks,            \* the rows of table tasks: rowid (= id) -> the other columns
    sqlite_sequence,  \* AUTOINCREMENT's record of the largest rowid ever used
    req,              \* the request handled last
    resp,             \* the response it was given
    created,          \* history: ids returned by a 201
    deleted,          \* history: ids whose DELETE was answered 200
    nreq,             \* number of requests handled
    inflight,         \* client -> the handler run it is waiting for, statement by statement
    commitlog         \* history: the writes committed, in commit order

vars == <<tasks, sqlite_sequence, req, resp, created, deleted, nreq, inflight, commitlog>>

\* Number of requests of a run.
MaxRequests == 3

-----------------------------------------------------------------------------
(* JSON / Python / SQL values *)

Absent == [k |-> "absent", s |-> <<>>]
Null == [k |-> "null", s |-> <<>>]
Str(s) == [k |-> "str", s |-> s]

\* Python's None, SQL's NULL and JSON's null are one value.
None == Null

WS == {" "}

RECURSIVE lstrip(_)
lstrip(s) == IF s # <<>> /\ Head(s) \in WS THEN lstrip(Tail(s)) ELSE s

RECURSIVE rstrip(_)
rstrip(s) ==
    IF s # <<>> /\ s[Len(s)] \in WS THEN rstrip(SubSeq(s, 1, Len(s) - 1)) ELSE s

\* str.strip()
strip(v) == Str(rstrip(lstrip(v.s)))

\* bool(v) of a string or None
truthy(v) == v # None /\ v.s # <<>>

valid_statuses == {Str(<<"pending">>), Str(<<"in_progress">>), Str(<<"completed">>)}

\* dict.get(key) and dict.get(key, default)
get(data, f) == IF data[f] = Absent THEN None ELSE data[f]

get_default(data, f, d) == IF data[f] = Absent THEN d ELSE data[f]

-----------------------------------------------------------------------------
(* Request bodies *)

\* title: missing, empty, whitespace only, and a title with blanks around it.
TitleInputs == {Absent, Str(<<>>), Str(<<" ">>), Str(<<" ", "a", " ">>)}

DescriptionInputs == {Absent, Str(<<"d">>)}

\* due_date is stored verbatim, whatever the text: here the empty string.
DueDateInputs == {Absent, Str(<<>>)}

\* status: missing, null, a value of the enumeration, a value outside it.
StatusInputs == {Absent, Null, Str(<<"completed">>), Str(<<"invalid">>)}

\* request.get_json(force=True, silent=True) of a request without (parsable) body
NoBody == [json |-> FALSE, title |-> Absent, description |-> Absent,
           due_date |-> Absent, status |-> Absent, other |-> FALSE]

\* A JSON object: the four recognised keys, and whether it has any other key.
Objects ==
    [json : {TRUE}, title : TitleInputs, description : DescriptionInputs,
     due_date : DueDateInputs, status : StatusInputs, other : {FALSE}]
    \cup {[NoBody EXCEPT !.json = TRUE, !.other = TRUE]}

Bodies == {NoBody} \cup Objects

\* `not data`: no body, or the empty object
falsy(data) ==
    \/ ~data.json
    \/ /\ data.title = Absent /\ data.description = Absent
       /\ data.due_date = Absent /\ data.status = Absent /\ ~data.other

-----------------------------------------------------------------------------
(* Data Access Layer: every operation is one unit of work on db *)

DB == [tasks |-> tasks, seq |-> sqlite_sequence]

Max(a, b) == IF a >= b THEN a ELSE b

MaxRowid(rows) ==
    IF DOMAIN rows = {} THEN 0
    ELSE CHOOSE m \in DOMAIN rows : \A i \in DOMAIN rows : i <= m

\* Without AUTOINCREMENT the rowid is one more than the largest rowid in the table.
NextRowidNoAutoincrement(db) == MaxRowid(db.tasks) + 1

\* INTEGER PRIMARY KEY AUTOINCREMENT: one more than the largest rowid ever used.
NextRowid(db) == Max(db.seq, MaxRowid(db.tasks)) + 1

\* dict(row)
Task(db, id) ==
    [kind |-> "task", id |-> id, title |-> db.tasks[id].title,
     description |-> db.tasks[id].description,
     due_date |-> db.tasks[id].due_date, status |-> db.tasks[id].status]

NoTask == [kind |-> "none"]

\* The INSERT with description and due_date bound to each other's column.
create_task_columns_swapped(db, title, description, due_date, status) ==
    LET task_id == NextRowid(db)
        row == [title |-> title, description |-> due_date,
                due_date |-> description, status |-> status]
    IN  [db |-> [tasks |-> (task_id :> row) @@ db.tasks, seq |-> task_id],
         ret |-> task_id]

create_task(db, title, description, due_date, status) ==
    LET task_id == NextRowid(db)
        row == [title |-> title, description |-> description,
                due_date |-> due_date, status |-> status]
    IN  [db |-> [tasks |-> (task_id :> row) @@ db.tasks, seq |-> task_id],
         ret |-> task_id]

\* ORDER BY id ASC
RECURSIVE OrderByIdAsc(_, _)
OrderByIdAsc(db, ids) ==
    IF ids = {} THEN <<>>
    ELSE LET m == CHOOSE i \in ids : \A j \in ids : i <= j
         IN  <<Task(db, m)>> \o OrderByIdAsc(db, ids \ {m})

\* SELECT * FROM tasks ORDER BY id DESC
RECURSIVE OrderByIdDesc(_, _)
OrderByIdDesc(db, ids) ==
    IF ids = {} THEN <<>>
    ELSE LET m == CHOOSE i \in ids : \A j \in ids : j <= i
         IN  <<Task(db, m)>> \o OrderByIdDesc(db, ids \ {m})

get_all_tasks(db) == OrderByIdDesc(db, DOMAIN db.tasks)

get_task_by_id(db, task_id) ==
    IF task_id \in DOMAIN db.tasks THEN Task(db, task_id) ELSE NoTask

\* An UPDATE that sets all four columns, given or not.
SetAllColumns(row, title, description, due_date, status) ==
    [title |-> title, description |-> description,
     due_date |-> due_date, status |-> status]

\* UPDATE tasks SET <the columns given> WHERE id = ?
SetColumns(row, title, description, due_date, status) ==
    [title |-> IF title # None THEN title ELSE row.title,
     description |-> IF description # None THEN description ELSE row.description,
     due_date |-> IF due_date # None THEN due_date ELSE row.due_date,
     status |-> IF status # None THEN status ELSE row.status]

\* update_task without its SELECT: the UPDATE of no row still reports success.
update_task_without_select(db, task_id, title, description, due_date, status) ==
    [db |-> IF task_id \notin DOMAIN db.tasks THEN db
            ELSE [db EXCEPT !.tasks[task_id] =
                      SetColumns(@, title, description, due_date, status)],
     ret |-> TRUE]

update_task(db, task_id, title, description, due_date, status) ==
    IF task_id \notin DOMAIN db.tasks
    THEN [db |-> db, ret |-> FALSE]
    ELSE [db |-> [db EXCEPT !.tasks[task_id] =
                      SetColumns(@, title, description, due_date, status)],
          ret |-> TRUE]

\* A delete that reports the row it found and does not remove it.
delete_task_without_delete(db, task_id) ==
    [db |-> db, ret |-> task_id \in DOMAIN db.tasks]

delete_task(db, task_id) ==
    LET rowcount == Cardinality({i \in DOMAIN db.tasks : i = task_id})
    IN  [db |-> [db EXCEPT !.tasks =
                      [i \in DOMAIN db.tasks \ {task_id} |-> db.tasks[i]]],
         ret |-> rowcount > 0]

-----------------------------------------------------------------------------
(* HTTP API layer: a handler maps the database and the request to the     *)
(* database after it and the response                                      *)

Error(db, code, msg) == [db |-> db, code |-> code, body |-> [kind |-> "error", error |-> msg]]

\* The POST handler's checks without the one of status.
create_error_without_status(data) ==
    IF falsy(data) THEN "No data provided"
    ELSE IF ~truthy(get(data, "title")) \/ ~truthy(strip(get(data, "title")))
    THEN "Title is required"
    ELSE ""

\* The checks of the POST handler, in its order; "" when the body passes.
create_error(data) ==
    IF falsy(data) THEN "No data provided"
    ELSE IF ~truthy(get(data, "title")) \/ ~truthy(strip(get(data, "title")))
    THEN "Title is required"
    ELSE IF get_default(data, "status", Str(<<"pending">>)) \notin valid_statuses
    THEN "Status must be one of: pending, in_progress, completed"
    ELSE ""

api_create_task(db, data) ==
    IF create_error(data) # "" THEN Error(db, 400, create_error(data))
    ELSE LET c == create_task(db, strip(get(data, "title")), get(data, "description"),
                              get(data, "due_date"),
                              get_default(data, "status", Str(<<"pending">>)))
         IN  [db |-> c.db, code |-> 201, body |-> get_task_by_id(c.db, c.ret)]

api_get_all_tasks(db) ==
    [db |-> db, code |-> 200, body |-> [kind |-> "list", items |-> get_all_tasks(db)]]

api_get_task(db, task_id) ==
    IF get_task_by_id(db, task_id) = NoTask THEN Error(db, 404, "Task not found")
    ELSE [db |-> db, code |-> 200, body |-> get_task_by_id(db, task_id)]

\* The PUT handler's checks without the one of status.
update_error_without_status(data) ==
    IF falsy(data) THEN "No data provided"
    ELSE IF get(data, "title") # None /\ ~truthy(strip(get(data, "title")))
    THEN "Title cannot be empty"
    ELSE ""

\* The PUT handler's checks with the title tested as the POST handler's first
\* test does (`not title`), never stripped.
update_error_without_strip(data) ==
    IF falsy(data) THEN "No data provided"
    ELSE IF get(data, "status") # None /\ get(data, "status") \notin valid_statuses
    THEN "Status must be one of: pending, in_progress, completed"
    ELSE IF get(data, "title") # None /\ ~truthy(get(data, "title"))
    THEN "Title cannot be empty"
    ELSE ""

\* The checks of the PUT handler, in its order; "" when the body passes.
update_error(data) ==
    IF falsy(data) THEN "No data provided"
    ELSE IF get(data, "status") # None /\ get(data, "status") \notin valid_statuses
    THEN "Status must be one of: pending, in_progress, completed"
    ELSE IF get(data, "title") # None /\ ~truthy(strip(get(data, "title")))
    THEN "Title cannot be empty"
    ELSE ""

api_update_task(db, task_id, data) ==
    IF update_error(data) # "" THEN Error(db, 400, update_error(data))
    ELSE LET u == update_task(db, task_id, get(data, "title"), get(data, "description"),
                              get(data, "due_date"), get(data, "status"))
         IN  IF ~u.ret THEN Error(u.db, 404, "Task not found")
             ELSE [db |-> u.db, code |-> 200, body |-> get_task_by_id(u.db, task_id)]

\* The DELETE handler without its test of delete_task's result.
api_delete_task_without_test(db, task_id) ==
    LET d == delete_task(db, task_id)
    IN  [db |-> d.db, code |-> 200,
         body |-> [kind |-> "message", message |-> "Task deleted successfully"]]

api_delete_task(db, task_id) ==
    LET d == delete_task(db, task_id)
    IN  IF ~d.ret THEN Error(d.db, 404, "Task not found")
        ELSE [db |-> d.db, code |-> 200,
              body |-> [kind |-> "message", message |-> "Task deleted successfully"]]

-----------------------------------------------------------------------------
(* The service *)

\* Ids a client asks for: every id assigned so far and one never assigned.
Ids == 1 .. (sqlite_sequence + 1)

NoRequest == [op |-> "none", id |-> 0, data |-> NoBody]

Clients == {1, 2}

\* No uncommitted write: the connection holds no transaction.
NoWork == [kind |-> "none"]

\* A client with no request in flight.
Idle ==
    [pc |-> "idle", op |-> "none", id |-> 0, data |-> NoBody, conn |-> FALSE,
     work |-> NoWork, ret |-> 0, before |-> NoWork, uow |-> NoWork,
     existed |-> FALSE]

Init ==
    /\ tasks = <<>>
    /\ sqlite_sequence = 0
    /\ req = NoRequest
    /\ resp = [code |-> 0, body |-> [kind |-> "none"]]
    /\ created = {}
    /\ deleted = {}
    /\ nreq = 0
    /\ inflight = [c \in Clients |-> Idle]
    /\ commitlog = <<>>

\* The handler's result r becomes the state; the request is op on id with data.
Handled(op, id, data, r) ==
    /\ nreq' = nreq + 1
    /\ tasks' = r.db.tasks
    /\ sqlite_sequence' = r.db.seq
    /\ req' = [op |-> op, id |-> id, data |-> data]
    /\ resp' = [code |-> r.code, body |-> r.body]
    /\ created' = IF op = "POST" /\ r.code = 201 THEN created \cup {r.body.id} ELSE created
    /\ deleted' = IF op = "DELETE" /\ r.code = 200 THEN deleted \cup {id} ELSE deleted
    /\ UNCHANGED <<inflight, commitlog>>

PostTasks ==
    /\ nreq < MaxRequests
    /\ \E data \in Bodies : Handled("POST", 0, data, api_create_task(DB, data))

GetTasks ==
    /\ nreq < MaxRequests
    /\ Handled("LIST", 0, NoBody, api_get_all_tasks(DB))

GetTask ==
    /\ nreq < MaxRequests
    /\ \E id \in Ids : Handled("GET", id, NoBody, api_get_task(DB, id))

PutTask ==
    /\ nreq < MaxRequests
    /\ \E id \in Ids, data \in Bodies :
           Handled("PUT", id, data, api_update_task(DB, id, data))

DeleteTask ==
    /\ nreq < MaxRequests
    /\ \E id \in Ids : Handled("DELETE", id, NoBody, api_delete_task(DB, id))

Next == PostTasks \/ GetTasks \/ GetTask \/ PutTask \/ DeleteTask

Spec == Init /\ [][Next]_vars

-----------------------------------------------------------------------------
(* The service, one statement at a time.  A handler run is a value of      *)
(* inflight: pc is the DAL call it is about to make or is inside of, conn   *)
(* whether its connection is open, work the table as its uncommitted        *)
(* statement left it.  History kept with it: before is the database when    *)
(* the request arrived, uow the database when the DAL call was made,        *)
(* existed whether the row asked for was there when the request arrived.    *)

Object(title, description, due_date, status) ==
    [json |-> TRUE, title |-> title, description |-> description,
     due_date |-> due_date, status |-> status, other |-> FALSE]

\* Bodies of the requests that run statement by statement: two that give a
\* title, two that give a status, one that gives only a null.
StepBodies ==
    {Object(Str(<<" ", "a", " ">>), Absent, Absent, Absent),
     Object(Absent, Str(<<"d">>), Absent, Str(<<"completed">>)),
     Object(Str(<<"b">>), Absent, Absent, Str(<<"in_progress">>)),
     Object(Null, Absent, Absent, Absent)}

\* conn.commit(): the uncommitted statement becomes the table.
commit(db, work) == IF work = NoWork THEN db ELSE work

\* A handler that commits what the failed unit of work had written.
rollback_keeping_writes(db, work) == IF work = NoWork THEN db ELSE work

\* conn.rollback(): the uncommitted statement is dropped.
rollback(db, work) == db

\* A database file without the write lock.
LockFree_without_lock(c) == TRUE

\* SQLite lets one connection at a time hold uncommitted writes; the other
\* waits (sqlite3.connect's default busy timeout) until the holder commits.
LockFree(c) == \A d \in Clients \ {c} : inflight[d].work = NoWork

\* The handler calls a DAL function: pc is at its first statement.
Call(h, pc, db) == [h EXCEPT !.pc = pc, !.uow = db]

\* with get_db_connection() as conn: ... and its exit, commit and close
Enter(h) == [h EXCEPT !.conn = TRUE]

Leave(h) == [h EXCEPT !.conn = FALSE, !.work = NoWork]

Started(pc, op, id, data) ==
    [Idle EXCEPT !.pc = pc, !.op = op, !.id = id, !.data = data, !.before = DB,
                 !.uow = DB, !.existed = id \in DOMAIN tasks]

Goto(c, h) == inflight' = [inflight EXCEPT ![c] = h]

\* The handler returns: the request and its response become observable.
Answer(c, op, id, data, code, body) ==
    /\ req' = [op |-> op, id |-> id, data |-> data]
    /\ resp' = [code |-> code, body |-> body]
    /\ inflight' = [inflight EXCEPT ![c] = Idle]

AnswerRun(c, code, body) ==
    Answer(c, inflight[c].op, inflight[c].id, inflight[c].data, code, body)

\* A request arrives; the handler validates it before any DAL call.
Receive(c, op, id, data, error, pc) ==
    /\ inflight[c].pc = "idle"
    /\ nreq' = nreq + 1
    /\ IF error # ""
       THEN Answer(c, op, id, data, 400, Error(DB, 400, error).body)
       ELSE Goto(c, Started(pc, op, id, data)) /\ UNCHANGED <<req, resp>>
    /\ UNCHANGED <<tasks, sqlite_sequence, created, deleted, commitlog>>

(* api_create_task *)

ReceivePost(c) ==
    /\ nreq < MaxRequests
    /\ \E data \in StepBodies :
           Receive(c, "POST", 0, data, create_error(data), "create_task")

\* INSERT INTO tasks ...; task_id = cursor.lastrowid
CreateInsert(c) ==
    LET h == inflight[c]
        r == create_task(DB, strip(get(h.data, "title")), get(h.data, "description"),
                         get(h.data, "due_date"),
                         get_default(h.data, "status", Str(<<"pending">>)))
    IN  /\ h.pc = "create_task"
        /\ LockFree(c)
        /\ Goto(c, [Enter(h) EXCEPT !.pc = "create_task.commit", !.work = r.db,
                                    !.ret = r.ret])
        /\ UNCHANGED <<tasks, sqlite_sequence, req, resp, created, deleted, nreq,
                       commitlog>>

CreateCommit(c) ==
    LET h == inflight[c]
        db == commit(DB, h.work)
    IN  /\ h.pc = "create_task.commit"
        /\ tasks' = db.tasks
        /\ sqlite_sequence' = db.seq
        /\ commitlog' = Append(commitlog, [id |-> h.ret, set |-> db.tasks[h.ret]])
        /\ Goto(c, Call(Leave(h), "create.get_task_by_id", db))
        /\ UNCHANGED <<req, resp, created, deleted, nreq>>

\* task = get_task_by_id(task_id); return jsonify(task), 201
CreateFetch(c) ==
    LET h == inflight[c]
    IN  /\ h.pc = "create.get_task_by_id"
        /\ AnswerRun(c, 201, get_task_by_id(DB, h.ret))
        /\ created' = created \cup {h.ret}
        /\ UNCHANGED <<tasks, sqlite_sequence, deleted, nreq, commitlog>>

(* api_update_task *)

ReceivePut(c) ==
    /\ nreq < MaxRequests
    /\ \E id \in Ids, data \in StepBodies :
           Receive(c, "PUT", id, data, update_error(data), "update_task")

\* SELECT id FROM tasks WHERE id = ?; no row: return False
UpdateSelect(c) ==
    LET h == inflight[c]
    IN  /\ h.pc = "update_task"
        /\ IF h.id \notin DOMAIN tasks
           THEN AnswerRun(c, 404, Error(DB, 404, "Task not found").body)
           ELSE Goto(c, [Enter(h) EXCEPT !.pc = "update_task.update"])
                /\ UNCHANGED <<req, resp>>
        /\ UNCHANGED <<tasks, sqlite_sequence, created, deleted, nreq, commitlog>>

\* The columns of the list `updates`.
updates(data) == {f \in {"title", "description", "due_date", "status"} : get(data, f) # None}

\* The UPDATE setting all four columns, given or not.
update_statement_all_columns(db, task_id, title, description, due_date, status) ==
    IF task_id \in DOMAIN db.tasks
    THEN [db EXCEPT !.tasks[task_id] =
              SetAllColumns(@, title, description, due_date, status)]
    ELSE db

\* UPDATE tasks SET <the columns given> WHERE id = ?, of the row if it is there
update_statement(db, task_id, title, description, due_date, status) ==
    IF task_id \in DOMAIN db.tasks
    THEN [db EXCEPT !.tasks[task_id] = SetColumns(@, title, description, due_date, status)]
    ELSE db

\* if updates: the UPDATE; with no column given there is no statement
UpdateStatement(c) ==
    LET h == inflight[c]
    IN  /\ h.pc = "update_task.update"
        /\ IF updates(h.data) = {}
           THEN Goto(c, [h EXCEPT !.pc = "update_task.commit"])
           ELSE /\ LockFree(c)
                /\ Goto(c, [h EXCEPT !.pc = "update_task.commit",
                                     !.work = update_statement(DB, h.id,
                                         get(h.data, "title"), get(h.data, "description"),
                                         get(h.data, "due_date"), get(h.data, "status"))])
        /\ UNCHANGED <<tasks, sqlite_sequence, req, resp, created, deleted, nreq,
                       commitlog>>

UpdateCommit(c) ==
    LET h == inflight[c]
        db == commit(DB, h.work)
    IN  /\ h.pc = "update_task.commit"
        /\ tasks' = db.tasks
        /\ sqlite_sequence' = db.seq
        /\ commitlog' = IF h.work = NoWork THEN commitlog
                        ELSE Append(commitlog,
                                    [id |-> h.id,
                                     set |-> [f \in updates(h.data) |-> get(h.data, f)]])
        /\ Goto(c, Call(Leave(h), "update.get_task_by_id", db))
        /\ UNCHANGED <<req, resp, created, deleted, nreq>>

\* task = get_task_by_id(task_id); return jsonify(task), 200
UpdateFetch(c) ==
    LET h == inflight[c]
    IN  /\ h.pc = "update.get_task_by_id"
        /\ AnswerRun(c, 200, get_task_by_id(DB, h.id))
        /\ UNCHANGED <<tasks, sqlite_sequence, created, deleted, nreq, commitlog>>

(* api_delete_task *)

ReceiveDelete(c) ==
    /\ nreq < MaxRequests
    /\ \E id \in Ids : Receive(c, "DELETE", id, NoBody, "", "delete_task")

\* DELETE FROM tasks WHERE id = ?; deleted = cursor.rowcount > 0
DeleteStatement(c) ==
    LET h == inflight[c]
        r == delete_task(DB, h.id)
    IN  /\ h.pc = "delete_task"
        /\ LockFree(c)
        /\ Goto(c, [Enter(h) EXCEPT !.pc = "delete_task.commit", !.work = r.db,
                                    !.ret = IF r.ret THEN 1 ELSE 0])
        /\ UNCHANGED <<tasks, sqlite_sequence, req, resp, created, deleted, nreq,
                       commitlog>>

DeleteCommit(c) ==
    LET h == inflight[c]
        db == commit(DB, h.work)
    IN  /\ h.pc = "delete_task.commit"
        /\ tasks' = db.tasks
        /\ sqlite_sequence' = db.seq
        /\ IF h.ret > 0
           THEN /\ AnswerRun(c, 200, [kind |-> "message",
                                      message |-> "Task deleted successfully"])
                /\ deleted' = deleted \cup {h.id}
           ELSE /\ AnswerRun(c, 404, Error(DB, 404, "Task not found").body)
                /\ UNCHANGED deleted
        /\ UNCHANGED <<created, nreq, commitlog>>

(* api_get_task and api_get_all_tasks *)

ReceiveGet(c) ==
    /\ nreq < MaxRequests
    /\ \E id \in Ids : Receive(c, "GET", id, NoBody, "", "get_task_by_id")

GetFetch(c) ==
    LET h == inflight[c]
    IN  /\ h.pc = "get_task_by_id"
        /\ AnswerRun(c, api_get_task(DB, h.id).code, api_get_task(DB, h.id).body)
        /\ UNCHANGED <<tasks, sqlite_sequence, created, deleted, nreq, commitlog>>

ReceiveList(c) ==
    /\ nreq < MaxRequests
    /\ Receive(c, "LIST", 0, NoBody, "", "get_all_tasks")

ListFetch(c) ==
    LET h == inflight[c]
    IN  /\ h.pc = "get_all_tasks"
        /\ AnswerRun(c, 200, api_get_all_tasks(DB).body)
        /\ UNCHANGED <<tasks, sqlite_sequence, created, deleted, nreq, commitlog>>

(* Storage-engine errors *)

\* A storage-engine error inside the DAL call the handler is at, at any of its
\* points (the connect, a statement, the commit): get_db_connection rolls
\* back, closes and re-raises, the DAL function re-raises, and the error
\* reaches the handler's except clause.
StorageError(c) ==
    LET h == inflight[c]
        db == rollback(DB, h.work)
    IN  /\ h.pc \notin {"idle", "except"}
        /\ tasks' = db.tasks
        /\ sqlite_sequence' = db.seq
        /\ Goto(c, [Leave(h) EXCEPT !.pc = "except"])
        /\ UNCHANGED <<req, resp, created, deleted, nreq, commitlog>>

\* except Exception: return jsonify({'error': 'Internal server error'}), 500
HandlerExcept(c) ==
    /\ inflight[c].pc = "except"
    /\ AnswerRun(c, 500, Error(DB, 500, "Internal server error").body)
    /\ UNCHANGED <<tasks, sqlite_sequence, created, deleted, nreq, commitlog>>

Handler(c) ==
    \/ ReceivePost(c) \/ CreateInsert(c) \/ CreateCommit(c) \/ CreateFetch(c)
    \/ ReceivePut(c) \/ UpdateSelect(c) \/ UpdateStatement(c) \/ UpdateCommit(c)
    \/ UpdateFetch(c)
    \/ ReceiveDelete(c) \/ DeleteStatement(c) \/ DeleteCommit(c)
    \/ ReceiveGet(c) \/ GetFetch(c) \/ ReceiveList(c) \/ ListFetch(c)

\* Two clients, their handlers interleaved statement by statement.
NextConc == \E c \in Clients : Handler(c)

SpecConc == Init /\ [][NextConc]_vars

\* One client; any of its DAL calls may fail.
NextFault == \E c \in {1} : Handler(c) \/ StorageError(c) \/ HandlerExcept(c)

SpecFault == Init /\ [][NextFault]_vars

-----------------------------------------------------------------------------
(* Vocabulary of the properties *)

Fields == {"title", "description", "due_date", "status"}

\* The body gives field f a value (a key that is missing or null gives none).
Supplied(data, f) == data[f].k = "str"

\* A string that is empty or all whitespace.
Blank(v) == v.k = "str" /\ \A n \in 1 .. Len(v.s) : v.s[n] \in WS

\* The body is a non-empty JSON object.
NonEmptyObject(data) ==
    data.json /\ (data.other \/ \E f \in Fields : data[f] # Absent)

\* The task record a client reads back for row id of table rows.
Record(rows, id) ==
    [kind |-> "task", id |-> id, title |-> rows[id].title,
     description |-> rows[id].description, due_date |-> rows[id].due_date,
     status |-> rows[id].status]

\* A field of a creation payload as it is expected back: missing reads as null.
OrNull(v) == IF v.k = "str" THEN v ELSE Null

-----------------------------------------------------------------------------
(* C1: every successful create returns an id that no earlier create has     *)
(* returned, the ids of deleted tasks included, and the id is that of the   *)
(* one row the create adds; an update leaves the set of ids as it was.      *)
C1_FreshId ==
    [][/\ (req'.op = "POST" /\ resp'.code = 201) =>
              /\ resp'.body.id \notin created
              /\ resp'.body.id \notin DOMAIN tasks
              /\ DOMAIN tasks' = DOMAIN tasks \cup {resp'.body.id}
              /\ \A i \in DOMAIN tasks : tasks'[i] = tasks[i]
       /\ req'.op = "PUT" => DOMAIN tasks' = DOMAIN tasks]_vars

\* A create answered 201 after the task that held the highest id was deleted.
C1_Witness ==
    /\ req.op = "POST" /\ resp.code = 201
    /\ deleted # {}
    /\ \A d \in deleted : d < resp.body.id
    /\ DOMAIN tasks = {resp.body.id}

(* C2: every stored task has a title that is a string, not empty and not    *)
(* all whitespace, and a status among pending, in_progress, completed.      *)
C2_StoredValid ==
    \A i \in DOMAIN tasks :
        /\ tasks[i].title.k = "str"
        /\ ~Blank(tasks[i].title)
        /\ tasks[i].status \in
               {Str(<<"pending">>), Str(<<"in_progress">>), Str(<<"completed">>)}

\* A task whose title an update wrote, and then an update of it that was refused.
C2_Witness ==
    /\ req.op = "PUT" /\ resp.code = 400 /\ req.id \in DOMAIN tasks
    /\ Blank(req.data.title)
    /\ tasks[req.id].title = Str(<<" ", "a", " ">>)

(* C3: an update answered 200 writes the fields its body supplies and       *)
(* nothing else: the other fields of the task and all other tasks keep      *)
(* their values, and the response is the record as read back.               *)
C3_PartialUpdate ==
    [][(req'.op = "PUT" /\ resp'.code = 200) =>
           /\ req'.id \in DOMAIN tasks
           /\ DOMAIN tasks' = DOMAIN tasks
           /\ \A f \in Fields :
                  tasks'[req'.id][f] =
                      IF Supplied(req'.data, f) THEN req'.data[f] ELSE tasks[req'.id][f]
           /\ \A j \in DOMAIN tasks \ {req'.id} : tasks'[j] = tasks[j]
           /\ sqlite_sequence' = sqlite_sequence
           /\ resp'.body = Record(tasks', req'.id)]_vars

\* An update of the title alone, of a task with a description, beside another task.
C3_Witness ==
    /\ req.op = "PUT" /\ resp.code = 200
    /\ Supplied(req.data, "title") /\ ~Supplied(req.data, "description")
    /\ ~Supplied(req.data, "status")
    /\ tasks[req.id].title = req.data.title
    /\ tasks[req.id].description = Str(<<"d">>)
    /\ Cardinality(DOMAIN tasks) = 2

(* C4: a listing is answered 200 with one record per task created and not   *)
(* deleted, N - M of them after N creates and M deletes, by strictly        *)
(* descending id; the empty sequence when there is none.                    *)
C4_Listing ==
    req.op = "LIST" =>
        /\ resp.code = 200
        /\ resp.body.kind = "list"
        /\ Len(resp.body.items) = Cardinality(created) - Cardinality(deleted)
        /\ {resp.body.items[n].id : n \in 1 .. Len(resp.body.items)} = created \ deleted
        /\ \A n \in 1 .. Len(resp.body.items) :
               /\ resp.body.items[n].id \in DOMAIN tasks
               /\ resp.body.items[n] = Record(tasks, resp.body.items[n].id)
        /\ \A n \in 1 .. Len(resp.body.items) - 1 :
               resp.body.items[n].id > resp.body.items[n + 1].id

\* A listing of two tasks.
C4_Witness == req.op = "LIST" /\ resp.code = 200 /\ Len(resp.body.items) = 2

\* A listing after one create and one delete: the empty sequence.
C4_WitnessEmpty ==
    req.op = "LIST" /\ resp.code = 200 /\ resp.body.items = <<>> /\ deleted # {}

(* C5 as stated: GET, PUT and DELETE of an id that no stored task has are   *)
(* answered 404 whatever the body, and leave the store as it was.           *)
C5_AlwaysNotFound ==
    [][(req'.op \in {"GET", "PUT", "DELETE"} /\ req'.id \notin DOMAIN tasks) =>
           /\ resp'.code = 404
           /\ tasks' = tasks /\ sqlite_sequence' = sqlite_sequence]_vars

\* A PUT body that the handler refuses before it looks for the task.
RefusedUpdateBody(data) ==
    \/ ~NonEmptyObject(data)
    \/ Supplied(data, "title") /\ Blank(data.title)
    \/ Supplied(data, "status") /\ data.status \notin valid_statuses

(* C5, amended: GET and DELETE of an id that no stored task has are         *)
(* answered 404; PUT of such an id is answered 400 when its body is         *)
(* missing or empty, has a blank title or an invalid status, and 404        *)
(* otherwise; in every case the store is left as it was.                    *)
C5_NotFound ==
    [][(req'.op \in {"GET", "PUT", "DELETE"} /\ req'.id \notin DOMAIN tasks) =>
           /\ resp'.code =
                  IF req'.op = "PUT" /\ RefusedUpdateBody(req'.data) THEN 400 ELSE 404
           /\ tasks' = tasks /\ sqlite_sequence' = sqlite_sequence]_vars

\* A DELETE of an id that was never assigned, beside a stored task: 404.
C5_Witness ==
    /\ req.op = "DELETE" /\ resp.code = 404
    /\ req.id \notin created
    /\ tasks # <<>>

\* A PUT with valid fields of an id that no stored task has: 404.
C5_WitnessPut ==
    /\ req.op = "PUT" /\ resp.code = 404
    /\ req.id \notin DOMAIN tasks
    /\ Supplied(req.data, "title") /\ Supplied(req.data, "status")
    /\ tasks # <<>>

(* C6: a PUT of an existing task whose body has a blank title or a status   *)
(* outside the enumeration is answered 400 and changes nothing, whatever    *)
(* other fields the body carries.                                           *)
C6_RejectedUpdate ==
    [][(/\ req'.op = "PUT" /\ req'.id \in DOMAIN tasks
        /\ \/ Supplied(req'.data, "title") /\ Blank(req'.data.title)
           \/ Supplied(req'.data, "status") /\ req'.data.status \notin valid_statuses) =>
           /\ resp'.code = 400
           /\ tasks' = tasks /\ sqlite_sequence' = sqlite_sequence]_vars

\* A refused PUT with an invalid status, a valid title and a valid description.
C6_Witness ==
    /\ req.op = "PUT" /\ resp.code = 400 /\ req.id \in DOMAIN tasks
    /\ req.data.status = Str(<<"invalid">>)
    /\ req.data.description = Str(<<"d">>)
    /\ req.data.title = Str(<<" ", "a", " ">>)
    /\ tasks[req.id].description = Null

(* C7: a POST whose title is missing, empty or all whitespace, or whose     *)
(* status is given and outside the enumeration, is answered 400, adds no    *)
(* row and uses up no id.                                                   *)
C7_RejectedCreate ==
    [][(/\ req'.op = "POST"
        /\ \/ ~Supplied(req'.data, "title")
           \/ Blank(req'.data.title)
           \/ req'.data.status # Absent /\ req'.data.status \notin valid_statuses) =>
           /\ resp'.code = 400
           /\ tasks' = tasks /\ sqlite_sequence' = sqlite_sequence
           /\ created' = created]_vars

\* A refused POST with a valid title and an invalid status, beside a stored task.
C7_Witness ==
    /\ req.op = "POST" /\ resp.code = 400
    /\ req.data.title = Str(<<" ", "a", " ">>)
    /\ req.data.status = Str(<<"invalid">>)
    /\ tasks # <<>>

(* C8 as stated: the GET that directly follows a create returns the         *)
(* payload field for field: title, description and due_date as submitted    *)
(* (missing ones as null), status as submitted or pending.                  *)
C8_RoundTripExact ==
    [][(/\ req.op = "POST" /\ resp.code = 201
        /\ req'.op = "GET" /\ req'.id = resp.body.id) =>
           /\ resp'.code = 200
           /\ resp'.body.id = resp.body.id
           /\ resp'.body.title = req.data.title
           /\ resp'.body.description = OrNull(req.data.description)
           /\ resp'.body.due_date = OrNull(req.data.due_date)
           /\ resp'.body.status =
                  IF req.data.status = Absent THEN Str(<<"pending">>) ELSE req.data.status]_vars

(* C8, amended: the GET that directly follows a create returns the payload  *)
(* with its title stripped of leading and trailing whitespace: description  *)
(* and due_date as submitted (missing ones as null), status as submitted    *)
(* or pending.                                                              *)
C8_RoundTrip ==
    [][(/\ req.op = "POST" /\ resp.code = 201
        /\ req'.op = "GET" /\ req'.id = resp.body.id) =>
           /\ resp'.code = 200
           /\ resp'.body.id = resp.body.id
           /\ resp'.body.title = Str(rstrip(lstrip(req.data.title.s)))
           /\ resp'.body.description = OrNull(req.data.description)
           /\ resp'.body.due_date = OrNull(req.data.due_date)
           /\ resp'.body.status =
                  IF req.data.status = Absent THEN Str(<<"pending">>) ELSE req.data.status]_vars

\* The second request of a run, a GET answered 200: the first was the create.
C8_Witness ==
    /\ nreq = 2 /\ req.op = "GET" /\ resp.code = 200
    /\ resp.body.title = Str(<<"a">>)
    /\ resp.body.description = Str(<<"d">>)
    /\ resp.body.due_date = Null
    /\ resp.body.status = Str(<<"pending">>)

(* C9: once a DELETE of an id is answered 200 no task has that id again,    *)
(* whatever is created, updated or deleted later: every later GET of it,    *)
(* and every later DELETE of it, is answered 404.                           *)
C9_DeletedStaysDeleted ==
    [][/\ deleted' \cap DOMAIN tasks' = {}
       /\ (req'.op \in {"GET", "DELETE"} /\ req'.id \in deleted) => resp'.code = 404
       /\ (req'.op = "PUT" /\ req'.id \in deleted) => resp'.code \in {400, 404}]_vars

\* A GET of a deleted id, answered 404.
C9_Witness == req.op = "GET" /\ req.id \in deleted /\ resp.code = 404

\* A second DELETE of a deleted id, answered 404.
C9_WitnessDelete == req.op = "DELETE" /\ req.id \in deleted /\ resp.code = 404 /\ nreq = 3

\* A PUT body that is a non-empty object and gives no value to any of the four fields.
ZeroFields(data) == NonEmptyObject(data) /\ \A f \in Fields : ~Supplied(data, f)

(* C10 as stated: an update with zero fields to change reports success      *)
(* without looking for the task: update_task returns True for an id that    *)
(* no row has, and the PUT is answered 200.                                 *)
C10_ZeroFieldsUnchecked ==
    [][(req'.op = "PUT" /\ ZeroFields(req'.data) /\ req'.id \notin DOMAIN tasks) =>
           /\ update_task(DB, req'.id, None, None, None, None).ret
           /\ resp'.code = 200]_vars

(* C10, amended: an update with zero fields to change looks for the task    *)
(* first: update_task returns False for an id that no row has and the PUT   *)
(* is answered 404; for a stored task it returns True, changes nothing,     *)
(* and the PUT is answered 200 with the unchanged record.                   *)
C10_ZeroFieldsChecked ==
    [][(req'.op = "PUT" /\ ZeroFields(req'.data)) =>
           /\ update_task(DB, req'.id, None, None, None, None).ret
                  = (req'.id \in DOMAIN tasks)
           /\ update_task(DB, req'.id, None, None, None, None).db = DB
           /\ tasks' = tasks /\ sqlite_sequence' = sqlite_sequence
           /\ IF req'.id \in DOMAIN tasks
              THEN resp'.code = 200 /\ resp'.body = Record(tasks, req'.id)
              ELSE resp'.code = 404]_vars

\* A PUT of a body with an unrecognised key only, of an id no task has: 404.
C10_Witness ==
    /\ req.op = "PUT" /\ req.data.other /\ ZeroFields(req.data)
    /\ req.id \notin DOMAIN tasks
    /\ resp.code = 404

-----------------------------------------------------------------------------
(* Vocabulary of the statement-level properties *)

\* The value the write committed last gave column f of row id, among the
\* writes of commitlog that gave that column a value (an INSERT gives all).
RECURSIVE LastCommitted(_, _, _)
LastCommitted(log, id, f) ==
    IF log = <<>> THEN Absent
    ELSE IF log[Len(log)].id = id /\ f \in DOMAIN log[Len(log)].set
    THEN log[Len(log)].set[f]
    ELSE LastCommitted(SubSeq(log, 1, Len(log) - 1), id, f)

\* This step is the answer to the request of client c.
Answers(c) == inflight[c].pc # "idle" /\ inflight'[c].pc = "idle"

-----------------------------------------------------------------------------
(* C11: when valid PUT requests on the same existing id run concurrently,   *)
(* each DAL call its own unit of work and the calls interleaved in any      *)
(* order, every one of them is answered 200 with the task as stored, and    *)
(* nothing signals a conflict; at every moment each column of a stored row  *)
(* holds the value of the update committed last among those that supplied   *)
(* that column, so a column supplied by one update only keeps that update's *)
(* value and a column no update supplied keeps the value it was created     *)
(* with.                                                                    *)
C11_LastCommitWins ==
    [][/\ \A id \in DOMAIN tasks' : \A f \in Fields :
              tasks'[id][f] = LastCommitted(commitlog', id, f)
       /\ \A c \in Clients :
              (/\ Answers(c)
               /\ inflight[c].op = "PUT"
               /\ inflight[c].existed
               /\ inflight[c].id \in DOMAIN tasks')
              => /\ resp'.code = 200
                 /\ resp'.body = Record(tasks', inflight[c].id)]_vars

\* Two PUTs on one row overlapped: the one answered 200 committed last, the
\* other committed before it and still awaits its re-fetch; both gave a
\* status, not the same, and the row holds the status committed last and the
\* title only the earlier one gave.
C11_Witness ==
    \E c \in Clients :
        /\ inflight[c].op = "PUT"
        /\ inflight[c].pc = "update.get_task_by_id"
        /\ req.op = "PUT"
        /\ req.id = inflight[c].id
        /\ resp.code = 200
        /\ Len(commitlog) = 3
        /\ commitlog[2] = [id |-> req.id,
                           set |-> [f \in updates(inflight[c].data) |->
                                        get(inflight[c].data, f)]]
        /\ commitlog[3] = [id |-> req.id,
                           set |-> [f \in updates(req.data) |-> get(req.data, f)]]
        /\ Supplied(req.data, "status")
        /\ Supplied(inflight[c].data, "status")
        /\ req.data.status # inflight[c].data.status
        /\ tasks[req.id].status = req.data.status
        /\ Supplied(inflight[c].data, "title")
        /\ ~Supplied(req.data, "title")
        /\ tasks[req.id].title = inflight[c].data.title
        /\ resp.body = Record(tasks, req.id)

-----------------------------------------------------------------------------
(* C12: under any interleaving of requests, every PUT answered 200 carries  *)
(* the full record of the task it updated and every POST answered 201       *)
(* carries the task it created, with its id.                                *)
C12_AnswerCarriesTask ==
    /\ (req.op = "PUT" /\ resp.code = 200)
       => resp.body.kind = "task" /\ resp.body.id = req.id
    /\ (req.op = "POST" /\ resp.code = 201)
       => resp.body.kind = "task" /\ resp.body.id \in created

-----------------------------------------------------------------------------
(* C13: a storage-engine error at any point inside a DAL operation rolls    *)
(* the unit of work back, so that the table (and the AUTOINCREMENT record)  *)
(* is exactly what it was when the operation was called; the connection is  *)
(* closed; the error is raised to the handler and nothing is answered by    *)
(* that step; the handler then answers 500 with a body {"error": ...}.      *)
C13_StorageErrorRollsBack ==
    [][\A c \in Clients :
           /\ (inflight[c].pc \notin {"idle", "except"} /\ inflight'[c].pc = "except")
              => /\ tasks' = inflight[c].uow.tasks
                 /\ sqlite_sequence' = inflight[c].uow.seq
                 /\ ~inflight'[c].conn
                 /\ inflight'[c].work = NoWork
                 /\ UNCHANGED <<req, resp>>
           /\ (inflight[c].pc = "except" /\ inflight'[c] # inflight[c])
              => /\ inflight'[c].pc = "idle"
                 /\ req' = [op |-> inflight[c].op, id |-> inflight[c].id,
                            data |-> inflight[c].data]
                 /\ resp'.code = 500
                 /\ resp'.body = [kind |-> "error", error |-> "Internal server error"]
                 /\ UNCHANGED <<tasks, sqlite_sequence>>]_vars

\* A create_task failed after its INSERT: the id it was given is in neither
\* the table nor the AUTOINCREMENT record, and the table, which holds a row,
\* is what it was when create_task was called.
C13_Witness ==
    \E c \in Clients :
        /\ inflight[c].pc = "except"
        /\ inflight[c].op = "POST"
        /\ inflight[c].ret > 0
        /\ inflight[c].ret \notin DOMAIN tasks
        /\ sqlite_sequence < inflight[c].ret
        /\ DOMAIN tasks # {}
        /\ DB = inflight[c].uow
        /\ ~inflight[c].conn

-----------------------------------------------------------------------------
(* C14 as stated: every request answered 500 leaves the table exactly as it *)
(* was before the request, also when the fault is in the re-fetch of a POST *)
(* or PUT whose write has committed.                                        *)
C14_FailureLeavesTable ==
    [][\A c \in Clients :
           (Answers(c) /\ resp'.code = 500) => tasks' = inflight[c].before.tasks]_vars

\* The table a request answered 500 may leave: what its write unit of work
\* makes of the table before the request.
WriteOf(h) ==
    IF h.op = "POST"
    THEN create_task(h.before, strip(get(h.data, "title")), get(h.data, "description"),
                     get(h.data, "due_date"),
                     get_default(h.data, "status", Str(<<"pending">>))).db.tasks
    ELSE IF h.op = "PUT"
    THEN update_task(h.before, h.id, get(h.data, "title"), get(h.data, "description"),
                     get(h.data, "due_date"), get(h.data, "status")).db.tasks
    ELSE h.before.tasks

(* C14, amended: a request answered 500 leaves the table exactly as it was  *)
(* before the request when it is a GET or a DELETE, and when the fault is   *)
(* in the write unit of work of a POST or PUT; when the fault is in the     *)
(* re-fetch (get_task_by_id) of a POST or PUT, the write has committed and  *)
(* the created or modified row stays behind the 500.                        *)
C14_FailureKeepsCommittedWrite ==
    [][\A c \in Clients :
           (Answers(c) /\ resp'.code = 500)
           => /\ tasks' \in {inflight[c].before.tasks, WriteOf(inflight[c])}
              /\ tasks' = inflight[c].uow.tasks
              /\ (inflight[c].uow = inflight[c].before)
                 => tasks' = inflight[c].before.tasks
              /\ (inflight[c].uow # inflight[c].before)
                 => /\ inflight[c].op \in {"POST", "PUT"}
                    /\ tasks' = WriteOf(inflight[c])
                    /\ tasks' # inflight[c].before.tasks]_vars

\* The only request of the run, a POST, was answered 500, no id was ever
\* returned, and the row it created is in the table.
C14_Witness ==
    /\ nreq = 1
    /\ req.op = "POST"
    /\ resp.code = 500
    /\ created = {}
    /\ inflight = [c \in Clients |-> Idle]
    /\ DOMAIN tasks = {1}
    /\ tasks[1].title = strip(req.data.title)

=============================================================================
